---------------------------- MODULE Spec2Model ----------------------------
(***************************************************************************)
(* Report generation of the Inspectra field-inspection app (src/App.tsx):  *)
(* generateReport, renderPlanWithPins, the two buttons that start a run,   *)
(* and the toast.  Lengths on the PDF page are millimetres (jsPDF default  *)
(* unit), pin positions are hundredths of a canvas pixel, so that          *)
(* (x / 100) * width is the integer x * width.                             *)
(*                                                                         *)
(* JavaScript runs one handler at a time: `active` is the run whose        *)
(* synchronous segment holds the thread (0 = the event loop is free), and  *)
(* a run gives the thread up only at `await renderPlanWithPins`.           *)
(***************************************************************************)
EXTENDS Integers, Sequences, FiniteSets, TLC

\* ------------------------------------------------------------------ bounds
MaxObs == 3
MaxPlans == 2
MaxRuns == 2
MaxImages == 4
MaxNoteLines == 20
MaxName == 3

Runs == 1..MaxRuns

\* ------------------------------------------------------- program constants
pageHeight == 297
rowHeight == 40
imagesPerRow == 3
imgSize == 50
spacing == 5
FontSize == 9

NoPlan == 0
NoCoords == <<>>

MsgNothing == "No observations to export"
MsgSuccess == "Report Generated Successfully"
MsgFailed == "Export failed"
NoToast == "null"

Priority == {"Low", "Medium", "High", "Critical"}

\* ------------------------------------------------------------ input pools
\* What a plan's imageData decodes to: a raster of w x h pixels, or nothing.
ImgSmall == [ok |-> TRUE, w |-> 250, h |-> 150]
ImgLarge == [ok |-> TRUE, w |-> 3000, h |-> 2000]
ImgCorrupt == [ok |-> FALSE, w |-> 0, h |-> 0]
\* An image file that loads with no pixels (reader.result is stored as it is,
\* whatever the file holds): the canvas gets width and height 0.
ImgEmpty == [ok |-> TRUE, w |-> 0, h |-> 0]

\* The payload of the i-th stored plan when plan `bad` (0: none) holds the
\* payload `broken`.
PayloadAt(i, bad, broken) ==
  IF i = bad THEN broken ELSE IF i % 2 = 1 THEN ImgSmall ELSE ImgLarge

Photos(n) == [i \in 1..n |-> "ok"]

\* Stored observations as the Observation type allows them (planId and coords
\* are nullable independently); noteLines is the number of lines the note
\* wraps to at width 160, 0 for the empty note.  A photo is "ok" or "bad"
\* (jsPDF's addImage rejects it); the capture input takes several files at
\* once, so a finding can hold more photos than the form shows slots for.
\* New findings are stored in front, so timestamps fall along the array,
\* except where the device clock was set back between two findings (id 3).
\* A stored project holds any MaxObs or fewer of them, in this order.
ObsPool ==
  << [id |-> 1, timestamp |-> 60, priority |-> "Critical", planId |-> 1,
      coords |-> <<0, 0>>, images |-> <<>>, noteLines |-> 0],
     [id |-> 2, timestamp |-> 50, priority |-> "High", planId |-> 1,
      coords |-> <<37, 100>>, images |-> Photos(MaxImages), noteLines |-> 1],
     [id |-> 3, timestamp |-> 55, priority |-> "Medium", planId |-> 2,
      coords |-> <<37, 100>>, images |-> <<>>, noteLines |-> MaxNoteLines],
     [id |-> 4, timestamp |-> 30, priority |-> "Low", planId |-> 2,
      coords |-> <<100, 50>>,
      images |-> <<"ok", "bad", "ok", "ok", "ok", "ok", "ok">>,
      noteLines |-> 2],
     [id |-> 5, timestamp |-> 20, priority |-> "Medium", planId |-> 1,
      coords |-> NoCoords, images |-> <<>>, noteLines |-> 1],
     [id |-> 6, timestamp |-> 10, priority |-> "Low", planId |-> NoPlan,
      coords |-> NoCoords, images |-> <<"ok">>, noteLines |-> 1] >>

ObsIds == 1..Len(ObsPool)

VARIABLES
  project,        \* ProjectInfo of the open project
  plans,          \* FloorPlan[]
  observations,   \* Observation[], canonical stored order
  view,           \* the screen shown
  searchQuery,    \* the text of the search box of the findings view
  isExporting,    \* the export gate
  showToast,      \* the toast message
  jspdf,          \* whether window.jspdf is present
  active,         \* run holding the JS thread, 0 if none
  pc,             \* position of each run
  cl,             \* what each run's closure captured: project, plans, observations
  doc,            \* each run's jsPDF document: its pages
  planIdx,        \* each run's position in `for (const plan of plans)`
  obsIdx,         \* each run's position in the detail loop
  currentY,       \* each run's vertical cursor
  canvas,         \* each run's canvas of renderPlanWithPins
  img,            \* each run's Image: "none", "loading" or "failed"
  outcome,        \* each run's result: "none", "success" or "failed"
  saved,          \* the file name each run gave to doc.save, <<>> before
  editingObs,     \* the Observation in the editor, NoObs for null
  activePlanId,   \* the plan shown in the viewer, NoPlan for null
  isSelectingLocation, \* the plan the editor picks a pin on, NoPlan for null
  selectedPinId,  \* the finding whose card the viewer shows, NoId for null
  isRepositioningId,   \* the finding whose pin is being moved, NoId for null
  isAnnotating,   \* the index of the photo being annotated, 0 for null
  reads,          \* FileReaders of captured photos that have not ended yet
  uploads,        \* handleAddPlan invocations whose file is still being read
  idCount         \* how many ids generateId has handed out

vars == <<project, plans, observations, view, searchQuery, isExporting,
          showToast, jspdf, active, pc, cl, doc, planIdx, obsIdx, currentY,
          canvas, img, outcome, saved, editingObs, activePlanId,
          isSelectingLocation, selectedPinId, isRepositioningId, isAnnotating,
          reads, uploads, idCount>>

editVars == <<editingObs, activePlanId, isSelectingLocation, selectedPinId,
              isRepositioningId, isAnnotating, reads, uploads, idCount>>
storeVars == <<project, plans, observations>>
runVars ==
  <<pc, cl, doc, planIdx, obsIdx, currentY, canvas, img, outcome, saved>>

\* ---------------------------------------------------------------- helpers
Max(a, b) == IF a >= b THEN a ELSE b

NoCanvas == [w |-> 0, h |-> 0, base |-> NoPlan, pins |-> <<>>, ops |-> <<>>]
\* project === null: no project is open
NoProject == [open |-> FALSE, name |-> <<>>]

\* null where an observation id, or an Observation, is expected.
NoId == 0
NoObs == [id |-> NoId, timestamp |-> 0, priority |-> "Medium",
          planId |-> NoPlan, coords |-> NoCoords, images |-> <<>>,
          noteLines |-> 0]
NoClosure == [project |-> NoProject, plans |-> <<>>, observations |-> <<>>]

\* indexOf taken as a 1-based position.
IndexOf_OneBased(s, o) ==
  IF \E i \in 1..Len(s) : s[i] = o
    THEN CHOOSE i \in 1..Len(s) : s[i] = o /\ \A j \in 1..(i - 1) : s[j] # o
    ELSE -1

\* Array.prototype.indexOf: the 0-based position of the element, -1 if absent.
\* Records carry their id, so equality of records is identity of objects.
IndexOf(s, o) ==
  IF \E i \in 1..Len(s) : s[i] = o
    THEN (CHOOSE i \in 1..Len(s) : s[i] = o /\ \A j \in 1..(i - 1) : s[j] # o) - 1
    ELSE -1

\* The filter on planId left out.
PlanObs_Unfiltered(obs, plan) == obs

\* observations.filter(o => o.planId === plan.id)
PlanObs(obs, plan) == SelectSeq(obs, LAMBDA o : o.planId = plan.id)


\* ---------------------------------------------------------- file name
\* A project name is a sequence of characters; these stand for a letter, a
\* digit, white space and any other character.
Chars == {"A", "4", " ", "#"}

IsSpace(c) == c = " "

\* The project names of at most MaxName characters (the settings form sets
\* the name to whatever is typed).
Names == UNION {[1..k -> Chars] : k \in 0..MaxName}

\* The name of the project opened: "Site A"
SiteName == <<"S", "i", "t", "e", " ", "A">>

Suffix == <<"_", "R", "e", "p", "o", "r", "t", ".", "p", "d", "f">>

\* s without its leading white space.
RECURSIVE SkipSpaces(_)
SkipSpaces(s) ==
  IF s # <<>> /\ IsSpace(Head(s)) THEN SkipSpaces(Tail(s)) ELSE s

\* name.replace(/\s+/g, '_'): every run of white space becomes one "_"
RECURSIVE ReplaceSpaces(_)
ReplaceSpaces(s) ==
  IF s = <<>> THEN <<>>
  ELSE IF IsSpace(Head(s)) THEN <<"_">> \o ReplaceSpaces(SkipSpaces(Tail(s)))
  ELSE <<Head(s)>> \o ReplaceSpaces(Tail(s))

\* `${project.name.replace(/\s+/g, '_')}_Report.pdf`
FileName(name) == ReplaceSpaces(name) \o Suffix

\* ------------------------------------------------- filteredObservations
\* What is typed in the search box: nothing, or a word.
Queries == {"", "high"}

\* priority.toLowerCase()
LowerCase(p) ==
  CASE p = "Low" -> "low" [] p = "Medium" -> "medium"
    [] p = "High" -> "high" [] p = "Critical" -> "critical"

\* The filter's test for the words of Queries: every string includes the
\* empty string; of the four fields only the priority of the stored samples
\* contains a word of Queries, and only when it is that word.
Matches(o, query) == query = "" \/ LowerCase(o.priority) = query

\* Array.prototype.sort((a, b) => b.timestamp - a.timestamp): stable, newest
\* first.
RECURSIVE SortNewestFirst(_)
SortNewestFirst(s) ==
  IF s = <<>> THEN <<>>
  ELSE LET last == s[Len(s)]
           head == SortNewestFirst(SubSeq(s, 1, Len(s) - 1))
           before == SelectSeq(head, LAMBDA o : o.timestamp >= last.timestamp)
           after == SelectSeq(head, LAMBDA o : o.timestamp < last.timestamp)
       IN before \o <<last>> \o after

\* The list the findings view shows.
filteredObservations(obs, query) ==
  SortNewestFirst(SelectSeq(obs, LAMBDA o : Matches(o, query)))

\* --------------------------------------------------- renderPlanWithPins
HasCoords(o) == o.coords # NoCoords

\* The percentage taken as a pixel count.
MapX_Unscaled(x, w) == x * 100

\* px = (obs.coords.x / 100) * canvas.width, in hundredths of a pixel
MapX(x, w) == x * w

\* py = (obs.coords.y / 100) * canvas.height, in hundredths of a pixel
MapY(y, h) == y * h

\* Math.max(canvas.width, canvas.height) * 0.015, in thousandths of a pixel
pinBaseSize(w, h) == Max(w, h) * 15

\* High treated like Medium and Low, as the findings list colours its badges.
PinColor_NoHigh(p) == IF p = "Critical" THEN "#dc2626" ELSE "#2563eb"

PinColor(p) ==
  IF p = "Critical" THEN "#dc2626"
  ELSE IF p = "High" THEN "#f97316"
  ELSE "#2563eb"

\* One pass of planObs.forEach for an observation that has coords; `all` is
\* the observations array of the enclosing render.
DrawPin(o, all, w, h) ==
  [obs |-> o.id,
   px |-> MapX(o.coords[1], w),
   py |-> MapY(o.coords[2], h),
   size |-> pinBaseSize(w, h),
   color |-> PinColor(o.priority),
   label |-> IndexOf(all, o) + 1]

\* The early return for missing coords left out: the pin lands at the origin.
DrawPins_NoGuard(planObs, all, w, h) ==
  [i \in 1..Len(planObs) |->
     DrawPin(IF planObs[i].coords = NoCoords
               THEN [planObs[i] EXCEPT !.coords = <<0, 0>>]
               ELSE planObs[i], all, w, h)]

\* planObs.forEach: observations without coords return early.
DrawPins(planObs, all, w, h) ==
  LET located == SelectSeq(planObs, HasCoords)
  IN [i \in 1..Len(located) |-> DrawPin(located[i], all, w, h)]

\* canvas.toDataURL('image/jpeg', 0.85) of a canvas without pixels is
\* "data:,", which holds no image.
Exportable(c) == c.w > 0 /\ c.h > 0

\* The label drawn first, under the discs.
PinPasses_LabelFirst == <<"label", "glow", "disc", "ring">>

\* The drawing calls for one pin: fill of the glow disc (302-305), fill of
\* the solid disc (307-310), stroke of the white ring (311-313), fillText of
\* the number (315-320).
PinPasses == <<"glow", "disc", "ring", "label">>

\* The calls on the canvas and its context in the order img.onload makes
\* them: drawImage, the passes of each located observation, toDataURL.
DrawOps(planObs) ==
  LET located == SelectSeq(planObs, HasCoords)
      count == Len(PinPasses)
  IN <<[op |-> "drawImage", obs |-> 0]>>
     \o [j \in 1..(count * Len(located)) |->
           [op |-> PinPasses[((j - 1) % count) + 1],
            obs |-> located[((j - 1) \div count) + 1].id]]
     \o <<[op |-> "toDataURL", obs |-> 0]>>

\* img.onload: the canvas takes the image's size, the base image is drawn,
\* then the pins.
Composite(plan, planObs, all) ==
  [w |-> plan.imageData.w, h |-> plan.imageData.h, base |-> plan.id,
   pins |-> DrawPins(planObs, all, plan.imageData.w, plan.imageData.h),
   ops |-> DrawOps(planObs)]

\* ------------------------------------------------------- detail layout
\* The row count rounded down: a last row that is not full is not counted.
ImgRows_Floor(n) == n \div imagesPerRow

\* Math.ceil(imgCount / imagesPerRow)
ImgRows(n) == (n + imagesPerRow - 1) \div imagesPerRow

TotalImgHeight(n) ==
  IF ImgRows(n) > 0 THEN ImgRows(n) * (imgSize + spacing) ELSE 0

TotalNeeded(n) == rowHeight + TotalImgHeight(n) + 10

\* The fit check without the photo grid's height.
NeedsNewPage_NoImages(y, n) == y + rowHeight + 10 > pageHeight - 20

\* if (currentY + totalNeeded > pageHeight - 20)
NeedsNewPage(y, n) == y + TotalNeeded(n) > pageHeight - 20

\* doc.splitTextToSize(obs.note || "No description provided.", 160):
\* the number of lines drawn
SplitNoteLines(o) == IF o.noteLines = 0 THEN 1 ELSE o.noteLines

\* The photo grid without the wrap to a new row after imagesPerRow photos.
Cells_NoWrap(images, y) ==
  [i \in 1..Len(images) |->
     [x |-> 20 + (i - 1) * (imgSize + spacing),
      y |-> y,
      placed |-> images[i] = "ok"]]

\* The photo cells of one finding; y is the cursor below the header box.
\* A photo that addImage rejects is caught and leaves its cell empty.
Cells(images, y) ==
  [i \in 1..Len(images) |->
     [x |-> 20 + ((i - 1) % imagesPerRow) * (imgSize + spacing),
      y |-> y + ((i - 1) \div imagesPerRow) * (imgSize + spacing),
      placed |-> images[i] = "ok"]]

\* What the detail loop draws for one finding whose box starts at `top`,
\* with the height totalNeeded that its fit check computed.
Block(o, index, top) ==
  [num |-> index + 1, obs |-> o.id, top |-> top,
   needed |-> TotalNeeded(Len(o.images)),
   lines |-> SplitNoteLines(o),
   cells |-> Cells(o.images, top + rowHeight + 5)]

\* The cursor after a finding drawn at `top`.
Advance(top, n) ==
  top + rowHeight + 5 + (IF n > 0 THEN TotalImgHeight(n) + 10 ELSE 5)

\* ------------------------------------------------------------- pages
Page(kind, planId) ==
  [kind |-> kind, plan |-> planId, image |-> NoCanvas, blocks |-> <<>>]

LastPage(d) == d[Len(d)]

\* The useState initial values of everything but the stored project.
FreshApp ==
  /\ view = "dashboard"
  /\ searchQuery = ""
  /\ isExporting = FALSE
  /\ showToast = NoToast
  /\ active = 0
  /\ pc = [r \in Runs |-> "idle"]
  /\ cl = [r \in Runs |-> NoClosure]
  /\ doc = [r \in Runs |-> <<>>]
  /\ planIdx = [r \in Runs |-> 0]
  /\ obsIdx = [r \in Runs |-> 0]
  /\ currentY = [r \in Runs |-> 0]
  /\ canvas = [r \in Runs |-> NoCanvas]
  /\ img = [r \in Runs |-> "none"]
  /\ outcome = [r \in Runs |-> "none"]
  /\ saved = [r \in Runs |-> <<>>]
  /\ editingObs = NoObs
  /\ activePlanId = NoPlan
  /\ isSelectingLocation = NoPlan
  /\ selectedPinId = NoId
  /\ isRepositioningId = NoId
  /\ isAnnotating = 0
  /\ reads = 0
  /\ uploads = <<>>
  /\ idCount = 0

\* ----------------------------------------------------------------- Init
Init ==
  /\ project = [open |-> TRUE, name |-> SiteName]
  /\ \E n \in 0..MaxPlans : \E bad \in 0..n :
     \E broken \in {ImgCorrupt, ImgEmpty} :
       plans = [i \in 1..n |->
                  [id |-> i, imageData |-> PayloadAt(i, bad, broken)]]
  /\ \E ids \in SUBSET ObsIds :
       /\ Cardinality(ids) <= MaxObs
       /\ observations = SelectSeq(ObsPool, LAMBDA o : o.id \in ids)
  /\ jspdf \in BOOLEAN
  /\ FreshApp

\* ------------------------------------------------------------ UI actions
\* The Home and Findings items of the bottom navigation.
SetView(v) ==
  /\ active = 0
  /\ view # v
  /\ view' = v
  /\ UNCHANGED <<editVars,
                 storeVars, searchQuery, isExporting, showToast, jspdf,
                 active, runVars>>

\* Typing in the search box of the findings view.
SetSearchQuery(q) ==
  /\ active = 0
  /\ view = "observations"
  /\ searchQuery # q
  /\ searchQuery' = q
  /\ UNCHANGED <<editVars,
                 storeVars, view, isExporting, showToast, jspdf, active,
                 runVars>>

\* The timer notify() sets: setTimeout(() => setShowToast(null), 3000)
ToastExpire ==
  /\ active = 0
  /\ showToast # NoToast
  /\ showToast' = NoToast
  /\ UNCHANGED <<editVars,
                 storeVars, view, searchQuery, isExporting, jspdf, active,
                 runVars>>

\* The emptiness test off by one.
NothingToExport_OffByOne == project = NoProject \/ Len(observations) <= 1

\* if (!project || observations.length === 0)
NothingToExport == project = NoProject \/ Len(observations) = 0

FreeRun(r) == pc[r] = "idle" /\ \A q \in Runs : pc[q] = "idle" => r <= q

\* generateReport sorting the observations array itself, newest first.
GenerateReport_SortInPlace ==
  IF NothingToExport
    THEN /\ showToast' = MsgNothing
         /\ UNCHANGED <<editVars,
                        storeVars, view, searchQuery, isExporting, jspdf,
                        active, runVars>>
    ELSE \E r \in Runs :
         /\ FreeRun(r)
         /\ isExporting' = TRUE
         /\ observations' = SortNewestFirst(observations)
         /\ pc' = [pc EXCEPT ![r] = "cover"]
         /\ cl' = [cl EXCEPT ![r] = [project |-> project, plans |-> plans,
                                     observations |-> observations']]
         /\ outcome' = [outcome EXCEPT ![r] = "none"]
         /\ doc' = [doc EXCEPT ![r] = <<>>]
         /\ active' = r
         /\ UNCHANGED <<editVars,
                        project, plans, view, searchQuery, showToast, jspdf,
                        saved, planIdx, obsIdx, currentY, canvas, img>>

\* generateReport reading the findings in the order the findings view lists
\* them, newest first.
GenerateReport_DisplayOrder ==
  IF NothingToExport
    THEN /\ showToast' = MsgNothing
         /\ UNCHANGED <<editVars,
                        storeVars, view, searchQuery, isExporting, jspdf,
                        active, runVars>>
    ELSE \E r \in Runs :
         /\ FreeRun(r)
         /\ isExporting' = TRUE
         /\ pc' = [pc EXCEPT ![r] = "cover"]
         /\ cl' = [cl EXCEPT ![r] = [project |-> project, plans |-> plans,
                                     observations |->
                                       SortNewestFirst(observations)]]
         /\ outcome' = [outcome EXCEPT ![r] = "none"]
         /\ doc' = [doc EXCEPT ![r] = <<>>]
         /\ active' = r
         /\ UNCHANGED <<editVars,
                        storeVars, view, searchQuery, showToast, jspdf, saved,
                        planIdx, obsIdx, currentY, canvas, img>>

\* generateReport up to setIsExporting(true); the closure of the current
\* render holds project, plans and observations.
GenerateReport ==
  IF NothingToExport
    THEN /\ showToast' = MsgNothing
         /\ UNCHANGED <<editVars,
                        storeVars, view, searchQuery, isExporting, jspdf,
                        active, runVars>>
    ELSE \E r \in Runs :
         /\ FreeRun(r)
         /\ isExporting' = TRUE
         /\ pc' = [pc EXCEPT ![r] = "cover"]
         /\ cl' = [cl EXCEPT ![r] = [project |-> project, plans |-> plans,
                                     observations |-> observations]]
         /\ outcome' = [outcome EXCEPT ![r] = "none"]
         /\ doc' = [doc EXCEPT ![r] = <<>>]
         /\ active' = r
         /\ UNCHANGED <<editVars,
                        storeVars, view, searchQuery, showToast, jspdf, saved,
                        planIdx, obsIdx, currentY, canvas, img>>

\* GENERATE SITE REPORT on the dashboard: disabled={isExporting}
ClickDashboardGenerate ==
  /\ active = 0
  /\ view = "dashboard"
  /\ ~isExporting
  /\ GenerateReport

\* The download button of the findings view: no disabled attribute
ClickFindingsGenerate ==
  /\ active = 0
  /\ view = "observations"
  /\ GenerateReport

\* ------------------------------------------------- steps of one run
\* The first phase leaving the cover undrawn.
Cover_Skipped(r) ==
  /\ active = r
  /\ pc[r] = "cover"
  /\ IF jspdf
       THEN /\ doc' = [doc EXCEPT ![r] = <<>>]
            /\ planIdx' = [planIdx EXCEPT ![r] = 1]
            /\ pc' = [pc EXCEPT ![r] = "maps"]
       ELSE /\ pc' = [pc EXCEPT ![r] = "catch"]
            /\ UNCHANGED <<editVars, doc, planIdx>>
  /\ UNCHANGED <<editVars,
                 storeVars, view, searchQuery, isExporting, showToast, jspdf,
                 saved, active, cl, obsIdx, currentY, canvas, img, outcome>>

\* const { jsPDF } = window.jspdf throws when the library is absent;
\* otherwise the cover page is drawn on the document's first page.
Cover(r) ==
  /\ active = r
  /\ pc[r] = "cover"
  /\ IF jspdf
       THEN /\ doc' = [doc EXCEPT ![r] = <<Page("cover", NoPlan)>>]
            /\ planIdx' = [planIdx EXCEPT ![r] = 1]
            /\ pc' = [pc EXCEPT ![r] = "maps"]
       ELSE /\ pc' = [pc EXCEPT ![r] = "catch"]
            /\ UNCHANGED <<editVars, doc, planIdx>>
  /\ UNCHANGED <<editVars,
                 storeVars, view, searchQuery, isExporting, showToast, jspdf,
                 saved, active, cl, obsIdx, currentY, canvas, img, outcome>>

\* One turn of `for (const plan of plans)` up to the await: a plan without
\* findings is skipped; otherwise the page and its title are added and
\* renderPlanWithPins sets img.src, then the run waits for the promise.
MapLoop(r) ==
  /\ active = r
  /\ pc[r] = "maps"
  /\ IF planIdx[r] > Len(cl[r].plans)
       THEN /\ pc' = [pc EXCEPT ![r] = "detailHeader"]
            /\ UNCHANGED <<editVars, doc, planIdx, img, active>>
       ELSE LET plan == cl[r].plans[planIdx[r]]
                planObs == PlanObs(cl[r].observations, plan)
            IN IF Len(planObs) = 0
                 THEN /\ planIdx' = [planIdx EXCEPT ![r] = @ + 1]
                      /\ UNCHANGED <<editVars, pc, doc, img, active>>
                 ELSE /\ doc' = [doc EXCEPT ![r] = Append(@, Page("map", plan.id))]
                      /\ img' = [img EXCEPT ![r] = "loading"]
                      /\ pc' = [pc EXCEPT ![r] = "await"]
                      /\ active' = 0
                      /\ UNCHANGED planIdx
  /\ UNCHANGED <<editVars,
                 storeVars, view, searchQuery, isExporting, showToast, jspdf,
                 saved, cl, obsIdx, currentY, canvas, outcome>>

\* img.onload of renderPlanWithPins: draws the plan and its pins and resolves
\* the promise; the awaiting run continues before any other task.
ImgOnload(r) ==
  /\ active = 0
  /\ pc[r] = "await"
  /\ img[r] = "loading"
  /\ LET plan == cl[r].plans[planIdx[r]]
     IN /\ plan.imageData.ok
        /\ canvas' = [canvas EXCEPT ![r] =
             Composite(plan, PlanObs(cl[r].observations, plan), cl[r].observations)]
  /\ img' = [img EXCEPT ![r] = "none"]
  /\ pc' = [pc EXCEPT ![r] = "resume"]
  /\ active' = r
  /\ UNCHANGED <<editVars,
                 storeVars, view, searchQuery, isExporting, showToast, jspdf,
                 saved, cl, doc, planIdx, obsIdx, currentY, outcome>>

\* The image fails to decode: renderPlanWithPins sets no onerror handler and
\* never rejects, so nothing runs and the promise stays pending.
ImgOnerror(r) ==
  /\ active = 0
  /\ pc[r] = "await"
  /\ img[r] = "loading"
  /\ ~cl[r].plans[planIdx[r]].imageData.ok
  /\ img' = [img EXCEPT ![r] = "failed"]
  /\ UNCHANGED <<editVars,
                 storeVars, view, searchQuery, isExporting, showToast, jspdf,
                 saved, active, pc, cl, doc, planIdx, obsIdx, currentY,
                 canvas, outcome>>

\* After the await: doc.getImageProperties(mappedPlanImg) throws when the
\* data URL holds no image; otherwise doc.addImage(mappedPlanImg, ...) puts
\* it on the plan's page.
Resume(r) ==
  /\ active = r
  /\ pc[r] = "resume"
  /\ IF Exportable(canvas[r])
       THEN /\ doc' = [doc EXCEPT ![r][Len(doc[r])].image = canvas[r]]
            /\ planIdx' = [planIdx EXCEPT ![r] = @ + 1]
            /\ pc' = [pc EXCEPT ![r] = "maps"]
       ELSE /\ pc' = [pc EXCEPT ![r] = "catch"]
            /\ UNCHANGED <<editVars, doc, planIdx>>
  /\ canvas' = [canvas EXCEPT ![r] = NoCanvas]
  /\ UNCHANGED <<editVars,
                 storeVars, view, searchQuery, isExporting, showToast, jspdf,
                 saved, active, cl, obsIdx, currentY, img, outcome>>

\* doc.addPage(); "DETAILED FINDINGS"; let currentY = 30
DetailHeader(r) ==
  /\ active = r
  /\ pc[r] = "detailHeader"
  /\ doc' = [doc EXCEPT ![r] = Append(@, Page("detail", NoPlan))]
  /\ currentY' = [currentY EXCEPT ![r] = 30]
  /\ obsIdx' = [obsIdx EXCEPT ![r] = 1]
  /\ pc' = [pc EXCEPT ![r] = "detail"]
  /\ UNCHANGED <<editVars,
                 storeVars, view, searchQuery, isExporting, showToast, jspdf,
                 saved, active, cl, planIdx, canvas, img, outcome>>

\* The detail loop without the try around doc.addImage of a photo: a photo
\* that addImage rejects ends the loop in the outer catch.
DetailStep_Unguarded(r) ==
  /\ active = r
  /\ pc[r] = "detail"
  /\ LET obs == cl[r].observations[obsIdx[r]]
         n == Len(obs.images)
         break == NeedsNewPage(currentY[r], n)
         top == IF break THEN 20 ELSE currentY[r]
         d == IF break THEN Append(doc[r], Page("detail", NoPlan)) ELSE doc[r]
     IN /\ doc' = [doc EXCEPT ![r] =
               [d EXCEPT ![Len(d)].blocks = Append(@, Block(obs, obsIdx[r] - 1, top))]]
        /\ currentY' = [currentY EXCEPT ![r] = Advance(top, n)]
        /\ pc' = [pc EXCEPT ![r] =
              IF \E i \in 1..n : obs.images[i] # "ok" THEN "catch"
              ELSE IF obsIdx[r] = Len(cl[r].observations) THEN "save" ELSE "detail"]
  /\ obsIdx' = [obsIdx EXCEPT ![r] = @ + 1]
  /\ UNCHANGED <<editVars,
                 storeVars, view, searchQuery, isExporting, showToast, jspdf,
                 saved, active, cl, planIdx, canvas, img, outcome>>

\* One turn of the detail loop: fit check, header box, texts, photo grid,
\* cursor advance.
DetailStep(r) ==
  /\ active = r
  /\ pc[r] = "detail"
  /\ LET obs == cl[r].observations[obsIdx[r]]
         n == Len(obs.images)
         break == NeedsNewPage(currentY[r], n)
         top == IF break THEN 20 ELSE currentY[r]
         d == IF break THEN Append(doc[r], Page("detail", NoPlan)) ELSE doc[r]
     IN /\ doc' = [doc EXCEPT ![r] =
               [d EXCEPT ![Len(d)].blocks = Append(@, Block(obs, obsIdx[r] - 1, top))]]
        /\ currentY' = [currentY EXCEPT ![r] = Advance(top, n)]
  /\ obsIdx' = [obsIdx EXCEPT ![r] = @ + 1]
  /\ pc' = [pc EXCEPT ![r] =
        IF obsIdx[r] = Len(cl[r].observations) THEN "save" ELSE "detail"]
  /\ UNCHANGED <<editVars,
                 storeVars, view, searchQuery, isExporting, showToast, jspdf,
                 saved, active, cl, planIdx, canvas, img, outcome>>

\* doc.save(...); notify("Report Generated Successfully")
Save(r) ==
  /\ active = r
  /\ pc[r] = "save"
  /\ outcome' = [outcome EXCEPT ![r] = "success"]
  /\ saved' = [saved EXCEPT ![r] = FileName(cl[r].project.name)]
  /\ showToast' = MsgSuccess
  /\ pc' = [pc EXCEPT ![r] = "finally"]
  /\ UNCHANGED <<editVars,
                 storeVars, view, searchQuery, isExporting, jspdf, active, cl,
                 doc, planIdx, obsIdx, currentY, canvas, img>>

\* A catch block that saves what has been drawn so far.
Catch_Saves(r) ==
  /\ active = r
  /\ pc[r] = "catch"
  /\ outcome' = [outcome EXCEPT ![r] = "success"]
  /\ showToast' = MsgSuccess
  /\ pc' = [pc EXCEPT ![r] = "finally"]
  /\ UNCHANGED <<editVars,
                 storeVars, view, searchQuery, isExporting, jspdf, saved,
                 active, cl, doc, planIdx, obsIdx, currentY, canvas, img>>

\* catch (err) { notify("Export failed") }
Catch(r) ==
  /\ active = r
  /\ pc[r] = "catch"
  /\ outcome' = [outcome EXCEPT ![r] = "failed"]
  /\ showToast' = MsgFailed
  /\ pc' = [pc EXCEPT ![r] = "finally"]
  /\ UNCHANGED <<editVars,
                 storeVars, view, searchQuery, isExporting, jspdf, saved,
                 active, cl, doc, planIdx, obsIdx, currentY, canvas, img>>

\* finally { setIsExporting(false) }: the run is over and its closure and
\* document are dropped.
Finally(r) ==
  /\ active = r
  /\ pc[r] = "finally"
  /\ isExporting' = FALSE
  /\ pc' = [pc EXCEPT ![r] = "idle"]
  /\ active' = 0
  /\ cl' = [cl EXCEPT ![r] = NoClosure]
  /\ doc' = [doc EXCEPT ![r] = <<>>]
  /\ planIdx' = [planIdx EXCEPT ![r] = 0]
  /\ obsIdx' = [obsIdx EXCEPT ![r] = 0]
  /\ currentY' = [currentY EXCEPT ![r] = 0]
  /\ outcome' = [outcome EXCEPT ![r] = "none"]
  /\ saved' = [saved EXCEPT ![r] = <<>>]
  /\ UNCHANGED <<editVars,
                 storeVars, view, searchQuery, showToast, jspdf, canvas, img>>

RunStep(r) ==
  \/ Cover(r)
  \/ MapLoop(r)
  \/ Resume(r)
  \/ DetailHeader(r)
  \/ DetailStep(r)
  \/ Save(r)
  \/ Catch(r)
  \/ Finally(r)

Next ==
  \/ \E v \in {"dashboard", "observations"} : SetView(v)
  \/ \E q \in Queries : SetSearchQuery(q)
  \/ ToastExpire
  \/ ClickDashboardGenerate
  \/ ClickFindingsGenerate
  \/ \E r \in Runs : Cover(r)
  \/ \E r \in Runs : MapLoop(r)
  \/ \E r \in Runs : ImgOnload(r)
  \/ \E r \in Runs : ImgOnerror(r)
  \/ \E r \in Runs : Resume(r)
  \/ \E r \in Runs : DetailHeader(r)
  \/ \E r \in Runs : DetailStep(r)
  \/ \E r \in Runs : Save(r)
  \/ \E r \in Runs : Catch(r)
  \/ \E r \in Runs : Finally(r)

Spec == Init /\ [][Next]_vars

\* Reports of a project with one finding and no plan, for every project
\* name of Names.
NameInit ==
  /\ \E name \in Names : project = [open |-> TRUE, name |-> name]
  /\ plans = <<>>
  /\ observations = <<ObsPool[1]>>
  /\ jspdf = TRUE
  /\ FreshApp

NameNext ==
  \/ ClickDashboardGenerate
  \/ \E r \in Runs : Cover(r)
  \/ \E r \in Runs : MapLoop(r)
  \/ \E r \in Runs : DetailHeader(r)
  \/ \E r \in Runs : DetailStep(r)
  \/ \E r \in Runs : Save(r)
  \/ \E r \in Runs : Finally(r)

NameSpec == NameInit /\ [][NameNext]_vars

\* The event loop runs every task that is ready: a started segment runs to
\* its end and the platform reports every image load.
FairSpec ==
  /\ Spec
  /\ \A r \in Runs : WF_vars(RunStep(r))
  /\ \A r \in Runs : WF_vars(ImgOnload(r))
  /\ \A r \in Runs : WF_vars(ImgOnerror(r))

\* ================================================================ editing
\* The handlers that change the stored project between two reports.
\* Calls of generateId in one behaviour.
MaxIds == 2
\* Files one change event of the capture input delivers.
MaxFiles == 2
\* FileReaders of captured photos pending at once.
MaxReads == 2
\* Photos of one finding, the reads still pending included.
MaxPhotos == 6
\* handleAddPlan invocations pending at once.
MaxUploads == 2

\* The capture tile is rendered while images.length < 5.
photoSlots == 5

MsgSaved == "Observation Saved"
MsgRepositioned == "Pin Repositioned"
MsgDeleted == "Finding Deleted"
MsgRenamed == "Plan Renamed"
MsgPlanDeleted == "Plan Deleted"
MsgUploaded == "Plan Uploaded"
MsgPdfProcessed == "PDF Plan Processed"
MsgPlanFailed == "Failed to process plan"

\* Where the plan image is clicked, in percent of its width and height.
Clicks == {<<37, 100>>}
\* The files given to the plan inputs: file.type and the name without its
\* extension.
PlanFiles == {[kind |-> "image", name |-> "A"], [kind |-> "pdf", name |-> "B"]}
PlanNames == {"A", "B"}

\* Math.random().toString(36): the n-th id handed out, unlike every id of
\* the stored project.
generateId(n) == Len(ObsPool) + n
\* Date.now() at the n-th creation: later than every stored timestamp.
Now(n) == ObsPool[1].timestamp + n

reportVars == <<project, searchQuery, isExporting, jspdf, active, runVars>>
viewerVars ==
  <<activePlanId, isSelectingLocation, selectedPinId, isRepositioningId>>

HasPlan(id) == \E k \in 1..Len(plans) : plans[k].id = id
Stored(id) == \E k \in 1..Len(observations) : observations[k].id = id

\* {(activePlanId || isSelectingLocation) && ...}: the plan viewer covers
\* every other screen.
ViewerOpen == activePlanId # NoPlan \/ isSelectingLocation # NoPlan
ViewedPlan ==
  IF activePlanId # NoPlan THEN activePlanId ELSE isSelectingLocation
\* {view === 'editor' && editingObs && ...}, not covered by the viewer or by
\* the annotation canvas.
EditorOpen ==
  /\ active = 0
  /\ view = "editor"
  /\ editingObs # NoObs
  /\ ~ViewerOpen
  /\ isAnnotating = 0
\* The condition the bottom navigation is rendered under; the screens of
\* the views are reachable under it.
NavShown == active = 0 /\ view # "editor" /\ ~ViewerOpen

selectedObservation ==
  IF selectedPinId # NoId /\ Stored(selectedPinId)
  THEN observations[CHOOSE k \in 1..Len(observations) :
                      /\ observations[k].id = selectedPinId
                      /\ \A j \in 1..(k - 1) :
                           observations[j].id # selectedPinId]
  ELSE NoObs

RemoveAt(s, i) == [k \in 1..(Len(s) - 1) |-> IF k < i THEN s[k] ELSE s[k + 1]]

\* The items of the bottom navigation.
Navigate(v) == NavShown /\ SetView(v)

\* The back arrow of the editor; editingObs stays as it is.
EditorBack == EditorOpen /\ SetView("observations")

\* startNewObservation(planId?, coords?): the assignments it makes.
startNewObservation(planId, coords) ==
  /\ idCount < MaxIds
  /\ idCount' = idCount + 1
  /\ editingObs' = [id |-> generateId(idCount + 1),
                    timestamp |-> Now(idCount + 1), priority |-> "Medium",
                    planId |-> planId, coords |-> coords, images |-> <<>>,
                    noteLines |-> 0]
  /\ view' = "editor"
  /\ activePlanId' = NoPlan

\* The + buttons of the dashboard, the findings view and the navigation.
NewFinding ==
  /\ NavShown
  /\ startNewObservation(NoPlan, NoCoords)
  /\ UNCHANGED <<plans, observations, showToast, isSelectingLocation,
                 selectedPinId, isRepositioningId, isAnnotating, reads,
                 uploads, reportVars>>

\* A click on a card of the findings list.
OpenFinding(o) ==
  /\ NavShown
  /\ view = "observations"
  /\ \E k \in 1..Len(filteredObservations(observations, searchQuery)) :
       filteredObservations(observations, searchQuery)[k] = o
  /\ editingObs' = o
  /\ view' = "editor"
  /\ UNCHANGED <<plans, observations, showToast, viewerVars, isAnnotating,
                 reads, uploads, idCount, reportVars>>

\* The bin of a card of the findings list, confirmed.
DeleteFinding(id) ==
  /\ NavShown
  /\ view = "observations"
  /\ Stored(id)
  /\ observations' = SelectSeq(observations, LAMBDA x : x.id # id)
  /\ UNCHANGED <<plans, view, showToast, editingObs, viewerVars,
                 isAnnotating, reads, uploads, idCount, reportVars>>

\* Move Pin.
MovePin ==
  /\ EditorOpen
  /\ editingObs.planId # NoPlan
  /\ isSelectingLocation' = editingObs.planId
  /\ UNCHANGED <<plans, observations, view, showToast, editingObs,
                 activePlanId, selectedPinId, isRepositioningId,
                 isAnnotating, reads, uploads, idCount, reportVars>>

\* Change Plan.
ChangePlan ==
  /\ EditorOpen
  /\ editingObs.planId # NoPlan
  /\ editingObs' = [editingObs EXCEPT !.planId = NoPlan, !.coords = NoCoords]
  /\ UNCHANGED <<plans, observations, view, showToast, viewerVars,
                 isAnnotating, reads, uploads, idCount, reportVars>>

\* A plan of "Select a plan to drop a pin".
SelectPlan(id) ==
  /\ EditorOpen
  /\ editingObs.planId = NoPlan
  /\ HasPlan(id)
  /\ isSelectingLocation' = id
  /\ UNCHANGED <<plans, observations, view, showToast, editingObs,
                 activePlanId, selectedPinId, isRepositioningId,
                 isAnnotating, reads, uploads, idCount, reportVars>>

Replaced(obs, o) ==
  [k \in 1..Len(obs) |-> IF obs[k].id = o.id THEN o ELSE obs[k]]

\* Save that puts a new finding behind the stored ones.
syncToCloud_Appends ==
  /\ EditorOpen
  /\ observations' = IF Stored(editingObs.id)
                     THEN Replaced(observations, editingObs)
                     ELSE Append(observations, editingObs)
  /\ editingObs' = NoObs
  /\ showToast' = MsgSaved
  /\ view' = "observations"
  /\ UNCHANGED <<plans, viewerVars, isAnnotating, reads, uploads, idCount,
                 reportVars>>

\* Save.
syncToCloud ==
  /\ EditorOpen
  /\ observations' = IF Stored(editingObs.id)
                     THEN Replaced(observations, editingObs)
                     ELSE <<editingObs>> \o observations
  /\ editingObs' = NoObs
  /\ showToast' = MsgSaved
  /\ view' = "observations"
  /\ UNCHANGED <<plans, viewerVars, isAnnotating, reads, uploads, idCount,
                 reportVars>>

\* A click on a plan card of the plans view.
OpenPlan(id) ==
  /\ NavShown
  /\ view = "plans"
  /\ HasPlan(id)
  /\ activePlanId' = id
  /\ UNCHANGED <<plans, observations, view, showToast, editingObs,
                 isSelectingLocation, selectedPinId, isRepositioningId,
                 isAnnotating, reads, uploads, idCount, reportVars>>

\* The X of the plan viewer.
CloseViewer ==
  /\ active = 0
  /\ ViewerOpen
  /\ activePlanId' = NoPlan
  /\ isSelectingLocation' = NoPlan
  /\ selectedPinId' = NoId
  /\ isRepositioningId' = NoId
  /\ UNCHANGED <<plans, observations, view, showToast, editingObs,
                 isAnnotating, reads, uploads, idCount, reportVars>>

\* A click on the plan image at xy.
ClickPlanImage(xy) ==
  /\ active = 0
  /\ ViewerOpen
  /\ HasPlan(ViewedPlan)
  /\ IF isRepositioningId # NoId
     THEN /\ observations' =
               [k \in 1..Len(observations) |->
                  IF observations[k].id = isRepositioningId
                  THEN [observations[k] EXCEPT !.coords = xy]
                  ELSE observations[k]]
          /\ isRepositioningId' = NoId
          /\ selectedPinId' = isRepositioningId
          /\ showToast' = MsgRepositioned
          /\ UNCHANGED <<view, editingObs, activePlanId,
                         isSelectingLocation, idCount>>
     ELSE IF isSelectingLocation # NoPlan /\ editingObs # NoObs
     THEN /\ editingObs' = [editingObs EXCEPT !.planId = isSelectingLocation,
                                              !.coords = xy]
          /\ isSelectingLocation' = NoPlan
          /\ UNCHANGED <<observations, view, showToast, activePlanId,
                         selectedPinId, isRepositioningId, idCount>>
     ELSE /\ startNewObservation(activePlanId, xy)
          /\ UNCHANGED <<observations, showToast, isSelectingLocation,
                         selectedPinId, isRepositioningId>>
  /\ UNCHANGED <<plans, isAnnotating, reads, uploads, reportVars>>

\* A click on the pin of a finding of the plan shown.
ClickPin(id) ==
  /\ active = 0
  /\ ViewerOpen
  /\ \E k \in 1..Len(observations) :
       observations[k].id = id /\ observations[k].planId = ViewedPlan
  /\ selectedPinId' = IF id = selectedPinId THEN NoId ELSE id
  /\ UNCHANGED <<plans, observations, view, showToast, editingObs,
                 activePlanId, isSelectingLocation, isRepositioningId,
                 isAnnotating, reads, uploads, idCount, reportVars>>

CardShown == active = 0 /\ ViewerOpen /\ selectedObservation # NoObs

\* Edit on the card of the selected finding.
EditSelected ==
  /\ CardShown
  /\ editingObs' = selectedObservation
  /\ view' = "editor"
  /\ activePlanId' = NoPlan
  /\ selectedPinId' = NoId
  /\ UNCHANGED <<plans, observations, showToast, isSelectingLocation,
                 isRepositioningId, isAnnotating, reads, uploads, idCount,
                 reportVars>>

\* Move on the card of the selected finding.
MoveSelected ==
  /\ CardShown
  /\ isRepositioningId' = selectedObservation.id
  /\ selectedPinId' = NoId
  /\ UNCHANGED <<plans, observations, view, showToast, editingObs,
                 activePlanId, isSelectingLocation, isAnnotating, reads,
                 uploads, idCount, reportVars>>

\* Delete on the card of the selected finding, confirmed.
DeleteSelected ==
  /\ CardShown
  /\ observations' =
       SelectSeq(observations, LAMBDA o : o.id # selectedObservation.id)
  /\ selectedPinId' = NoId
  /\ showToast' = MsgDeleted
  /\ UNCHANGED <<plans, view, editingObs, activePlanId, isSelectingLocation,
                 isRepositioningId, isAnnotating, reads, uploads, idCount,
                 reportVars>>

\* Dismiss View.
DismissSelected ==
  /\ CardShown
  /\ selectedPinId' = NoId
  /\ UNCHANGED <<plans, observations, view, showToast, editingObs,
                 activePlanId, isSelectingLocation, isRepositioningId,
                 isAnnotating, reads, uploads, idCount, reportVars>>

\* ------------------------------------------------------------- photos
\* The change event of the capture input with k files: one FileReader each.
Capture(k) ==
  /\ EditorOpen
  /\ Len(editingObs.images) < photoSlots
  /\ reads + k <= MaxReads
  /\ Len(editingObs.images) + reads + k <= MaxPhotos
  /\ \A j \in 1..Len(observations) :
       Len(observations[j].images) + reads + k <= MaxPhotos
  /\ reads' = reads + k
  /\ UNCHANGED <<plans, observations, view, showToast, editingObs,
                 viewerVars, isAnnotating, uploads, idCount, reportVars>>

\* reader.onloadend: setEditingObs(prev => prev ? {...} : null)
ReadDone ==
  /\ active = 0
  /\ reads > 0
  /\ reads' = reads - 1
  /\ editingObs' = IF editingObs # NoObs
                   THEN [editingObs EXCEPT !.images = Append(@, "ok")]
                   ELSE NoObs
  /\ UNCHANGED <<plans, observations, view, showToast, viewerVars,
                 isAnnotating, uploads, idCount, reportVars>>

\* The bin of the i-th photo.
DeletePhoto(i) ==
  /\ EditorOpen
  /\ i \in 1..Len(editingObs.images)
  /\ editingObs' = [editingObs EXCEPT !.images = RemoveAt(@, i)]
  /\ UNCHANGED <<plans, observations, view, showToast, viewerVars,
                 isAnnotating, reads, uploads, idCount, reportVars>>

\* The pencil of the i-th photo.
AnnotateOpen(i) ==
  /\ EditorOpen
  /\ i \in 1..Len(editingObs.images)
  /\ isAnnotating' = i
  /\ UNCHANGED <<plans, observations, view, showToast, editingObs,
                 viewerVars, reads, uploads, idCount, reportVars>>

AnnotationOpen ==
  /\ active = 0
  /\ view = "editor"
  /\ editingObs # NoObs
  /\ ~ViewerOpen
  /\ isAnnotating # 0

\* onSave of PhotoAnnotation: the canvas export takes the photo's place.
AnnotateSave ==
  /\ AnnotationOpen
  /\ editingObs' = [editingObs EXCEPT !.images[isAnnotating] = "ok"]
  /\ isAnnotating' = 0
  /\ UNCHANGED <<plans, observations, view, showToast, viewerVars, reads,
                 uploads, idCount, reportVars>>

AnnotateCancel ==
  /\ AnnotationOpen
  /\ isAnnotating' = 0
  /\ UNCHANGED <<plans, observations, view, showToast, editingObs,
                 viewerVars, reads, uploads, idCount, reportVars>>

\* -------------------------------------------------------------- plans
\* handleAddPlan up to its first await (PDF) or readAsDataURL (image): the
\* continuation keeps the `plans` of the render the handler belongs to.
handleAddPlan(f) ==
  /\ NavShown
  /\ view = "plans"
  /\ Len(uploads) < MaxUploads
  /\ idCount + Len(uploads) < MaxIds
  /\ uploads' = Append(uploads, [file |-> f, plans |-> plans])
  /\ UNCHANGED <<plans, observations, view, showToast, editingObs,
                 viewerVars, isAnnotating, reads, idCount, reportVars>>

NewPlan(u, n) ==
  [id |-> generateId(n), name |-> u.file.name, imageData |-> ImgSmall]

\* The continuation of the i-th pending handleAddPlan:
\* setPlans([...plans, {id: generateId(), name: fileName, imageData}])
PlanLoaded(i) ==
  /\ active = 0
  /\ i \in 1..Len(uploads)
  /\ idCount' = idCount + 1
  /\ plans' = Append(uploads[i].plans, NewPlan(uploads[i], idCount + 1))
  /\ showToast' = IF uploads[i].file.kind = "pdf"
                  THEN MsgPdfProcessed ELSE MsgUploaded
  /\ uploads' = RemoveAt(uploads, i)
  /\ UNCHANGED <<observations, view, editingObs, viewerVars, isAnnotating,
                 reads, reportVars>>

\* pdf.js rejects the file: the catch block.
PlanRejected(i) ==
  /\ active = 0
  /\ i \in 1..Len(uploads)
  /\ uploads[i].file.kind = "pdf"
  /\ showToast' = MsgPlanFailed
  /\ uploads' = RemoveAt(uploads, i)
  /\ UNCHANGED <<plans, observations, view, editingObs, viewerVars,
                 isAnnotating, reads, idCount, reportVars>>

\* handleRenamePlan(id, newName) with a name that is not blank.
handleRenamePlan(id, newName) ==
  /\ NavShown
  /\ view = "plans"
  /\ HasPlan(id)
  /\ plans' = [k \in 1..Len(plans) |->
                 IF plans[k].id = id THEN [plans[k] EXCEPT !.name = newName]
                 ELSE plans[k]]
  /\ showToast' = MsgRenamed
  /\ UNCHANGED <<observations, view, editingObs, viewerVars, isAnnotating,
                 reads, uploads, idCount, reportVars>>

\* The bin of a plan card, confirmed.
DeletePlan(id) ==
  /\ NavShown
  /\ view = "plans"
  /\ HasPlan(id)
  /\ plans' = SelectSeq(plans, LAMBDA p : p.id # id)
  /\ showToast' = MsgPlanDeleted
  /\ UNCHANGED <<observations, view, editingObs, viewerVars, isAnnotating,
                 reads, uploads, idCount, reportVars>>

\* ------------------------------------------------------ specifications
\* A stored project with two plans and no finding yet.
EditInit ==
  /\ project = [open |-> TRUE, name |-> SiteName]
  /\ plans = [i \in 1..2 |->
                [id |-> i, name |-> "A",
                 imageData |-> PayloadAt(i, 0, ImgCorrupt)]]
  /\ observations = <<>>
  /\ jspdf = TRUE
  /\ FreshApp

EditNext ==
  \/ \E v \in {"plans", "observations"} : Navigate(v)
  \/ NewFinding
  \/ \E k \in 1..Len(observations) : OpenFinding(observations[k])
  \/ \E k \in 1..Len(observations) : DeleteFinding(observations[k].id)
  \/ EditorBack
  \/ MovePin
  \/ ChangePlan
  \/ \E k \in 1..Len(plans) : SelectPlan(plans[k].id)
  \/ syncToCloud
  \/ \E k \in 1..Len(plans) : OpenPlan(plans[k].id)
  \/ CloseViewer
  \/ \E xy \in Clicks : ClickPlanImage(xy)
  \/ \E k \in 1..Len(observations) : ClickPin(observations[k].id)
  \/ EditSelected
  \/ MoveSelected
  \/ DeleteSelected
  \/ DismissSelected

EditSpec == EditInit /\ [][EditNext]_vars

\* The plans of a project with two plans and a finding pinned on the first.
PlanInit ==
  /\ project = [open |-> TRUE, name |-> SiteName]
  /\ plans = [i \in 1..2 |->
                [id |-> i, name |-> "A",
                 imageData |-> PayloadAt(i, 0, ImgCorrupt)]]
  /\ observations = <<ObsPool[1]>>
  /\ jspdf = TRUE
  /\ FreshApp

PlanNext ==
  \/ \E v \in {"plans", "observations"} : Navigate(v)
  \/ \E f \in PlanFiles : handleAddPlan(f)
  \/ \E i \in 1..MaxUploads : PlanLoaded(i)
  \/ \E i \in 1..MaxUploads : PlanRejected(i)
  \/ \E k \in 1..Len(plans) : \E n \in PlanNames :
       handleRenamePlan(plans[k].id, n)
  \/ \E k \in 1..Len(plans) : DeletePlan(plans[k].id)
  \/ \E k \in 1..Len(plans) : OpenPlan(plans[k].id)
  \/ CloseViewer
  \/ \E xy \in Clicks : ClickPlanImage(xy)
  \/ EditorBack
  \/ syncToCloud
  \/ \E k \in 1..Len(observations) : DeleteFinding(observations[k].id)

PlanSpec == PlanInit /\ [][PlanNext]_vars

\* The photos of the findings of a project with one finding and no plan.
PhotoInit ==
  /\ project = [open |-> TRUE, name |-> SiteName]
  /\ plans = <<>>
  /\ observations = <<ObsPool[6]>>
  /\ jspdf = TRUE
  /\ FreshApp

PhotoNext ==
  \/ \E v \in {"dashboard", "observations"} : Navigate(v)
  \/ NewFinding
  \/ \E k \in 1..Len(observations) : OpenFinding(observations[k])
  \/ EditorBack
  \/ \E k \in 1..MaxFiles : Capture(k)
  \/ ReadDone
  \/ \E i \in 1..MaxPhotos : DeletePhoto(i)
  \/ \E i \in 1..MaxPhotos : AnnotateOpen(i)
  \/ AnnotateSave
  \/ AnnotateCancel
  \/ syncToCloud

PhotoSpec == PhotoInit /\ [][PhotoNext]_vars

\* ============================================================ properties
InFlight(r) == pc[r] # "idle"

Range(q) == {q[i] : i \in 1..Len(q)}

\* The canvases a run has drawn: the one in progress and those placed on pages.
Canvases(r) == {canvas[r]} \cup {doc[r][i].image : i \in 1..Len(doc[r])}

\* The observation of run r's closure with the given id.
ObsOf(r, id) == CHOOSE o \in Range(cl[r].observations) : o.id = id

\* The document of run r is complete: the detail loop has ended.
Complete(r) == pc[r] = "save" \/ (pc[r] = "finally" /\ outcome[r] = "success")

\* The blocks of a document in drawing order.
RECURSIVE BlocksOf(_)
BlocksOf(d) ==
  IF d = <<>> THEN <<>> ELSE BlocksOf(SubSeq(d, 1, Len(d) - 1)) \o LastPage(d).blocks

\* The plan ids of a document's map pages in page order.
RECURSIVE MapPlanIds(_)
MapPlanIds(d) ==
  IF d = <<>> THEN <<>>
  ELSE MapPlanIds(SubSeq(d, 1, Len(d) - 1)) \o
       (IF LastPage(d).kind = "map" THEN <<LastPage(d).plan>> ELSE <<>>)

\* C1: at most one generation run is in flight at any time; a second
\* invocation during a run is ignored or deferred, never interleaved.
C1_SingleRunInFlight == Cardinality({r \in Runs : InFlight(r)}) <= 1

GenerateClicked == ClickDashboardGenerate \/ ClickFindingsGenerate

\* C2: invoking generateReport with zero observations starts nothing
\* (isExporting, every run and every document unchanged) and notifies
\* "No observations to export"; an invocation with at least one observation
\* never gives that outcome.
C2_NothingToExport ==
  [][GenerateClicked =>
       IF Len(observations) = 0
         THEN /\ showToast' = MsgNothing
              /\ showToast' # MsgFailed
              /\ UNCHANGED <<editVars, isExporting, active, runVars>>
         ELSE /\ UNCHANGED showToast
              /\ isExporting']_vars

C2_Witness ==
  /\ showToast = MsgNothing
  /\ Len(observations) = 0
  /\ ~isExporting
  /\ \A r \in Runs : ~InFlight(r) /\ doc[r] = <<>>

\* C3: a run that meets a plan whose image fails to decode still reaches
\* doc.save and reports success.
C3_CorruptPlanStillSucceeds ==
  \A r \in Runs :
    (pc[r] = "await" /\ ~cl[r].plans[planIdx[r]].imageData.ok)
      ~> (pc[r] = "finally" /\ outcome[r] = "success")

\* The plans of run r's closure that have at least one observation, in order.
PlansWithFindings(r) ==
  LET withObs == SelectSeq(cl[r].plans,
        LAMBDA p : \E o \in Range(cl[r].observations) : o.planId = p.id)
  IN [i \in 1..Len(withObs) |-> withObs[i].id]

\* C4: the map section of a complete document has exactly one page for each
\* plan with at least one observation, none for the other plans, in the order
\* of plans.
C4_MapPages ==
  \A r \in Runs :
    (pc[r] = "detailHeader" \/ pc[r] = "detail" \/ Complete(r))
      => MapPlanIds(doc[r]) = PlansWithFindings(r)

C4_Witness ==
  \E r \in Runs :
    /\ pc[r] = "save"
    /\ Len(cl[r].plans) = 2
    /\ MapPlanIds(doc[r]) = <<2>>

\* C5: in the detail loop, a finding whose block would pass the bottom margin
\* (cursor + block height > pageHeight - 20) gets a new page and is drawn at
\* the top margin 20; any other finding is drawn at the cursor on the current
\* page.
C5_FitCheck ==
  [][\A r \in Runs :
       (pc[r] = "detail" /\ obsIdx'[r] = obsIdx[r] + 1) =>
         LET n == Len(cl[r].observations[obsIdx[r]].images)
             need == rowHeight + ((n + 2) \div 3) * (imgSize + spacing) + 10
             page == LastPage(doc'[r])
             b == page.blocks[Len(page.blocks)]
         IN IF currentY[r] + need > pageHeight - 20
              THEN /\ Len(doc'[r]) = Len(doc[r]) + 1
                   /\ Len(page.blocks) = 1
                   /\ b.top = 20
              ELSE /\ Len(doc'[r]) = Len(doc[r])
                   /\ b.top = currentY[r]]_vars

C5_Witness ==
  \E r \in Runs :
    /\ pc[r] = "save"
    /\ Len(doc[r]) >= 2
    /\ doc[r][Len(doc[r]) - 1].kind = "detail"
    /\ LastPage(doc[r]).blocks # <<>>
    /\ LastPage(doc[r]).blocks[1].top = 20

\* Line height of the description text: fontSize * 1.15 * 25.4 / 72 mm,
\* as the fraction LineHeightNum / LineHeightDen.
LineHeightNum == FontSize * 115 * 254
LineHeightDen == 72 * 100 * 10

\* Every element of a block ends at or above the bottom margin.
BlockWithinMargin(b) ==
  /\ b.top + rowHeight <= pageHeight - 20
  /\ (b.top + 28) * LineHeightDen + (b.lines - 1) * LineHeightNum
       <= (pageHeight - 20) * LineHeightDen
  /\ \A i \in 1..Len(b.cells) : b.cells[i].y + imgSize <= pageHeight - 20

\* C6: no finding block is cut by a page boundary: header, metadata, every
\* line of the wrapped description and every photo cell end at or above
\* pageHeight - 20.
C6_BlockNeverCut ==
  \A r \in Runs : \A i \in 1..Len(doc[r]) :
    \A k \in 1..Len(doc[r][i].blocks) : BlockWithinMargin(doc[r][i].blocks[k])

\* The 1-based position in run r's observations of the observation with this id.
PositionOf(r, id) ==
  CHOOSE i \in 1..Len(cl[r].observations) : cl[r].observations[i].id = id

\* C7: within one run every finding's number is its 1-based position in the
\* observations sequence: the label of its pin and the number of its detail
\* header both equal it (so they agree and no label is 0), and the headers of
\* a complete document are numbered 1..N in order.
C7_FindingNumbers ==
  \A r \in Runs :
    /\ \A c \in Canvases(r) : \A k \in 1..Len(c.pins) :
         /\ c.pins[k].label = PositionOf(r, c.pins[k].obs)
         /\ c.pins[k].label >= 1
    /\ \A k \in 1..Len(BlocksOf(doc[r])) :
         /\ BlocksOf(doc[r])[k].num = k
         /\ BlocksOf(doc[r])[k].num = PositionOf(r, BlocksOf(doc[r])[k].obs)
    /\ Complete(r) => Len(BlocksOf(doc[r])) = Len(cl[r].observations)

C7_Witness ==
  \E r \in Runs :
    /\ pc[r] = "save"
    /\ Len(cl[r].observations) = 2
    /\ \E c \in Canvases(r) :
         /\ c.base = 2
         /\ Len(c.pins) = 1
         /\ c.pins[1].label = 2
         /\ BlocksOf(doc[r])[2].obs = c.pins[1].obs

\* C8: an observation whose coords is null never gets a pin, whatever its
\* planId; the pins of a plan are exactly its located observations, in order,
\* and the run goes on.
C8_NoPinWithoutCoords ==
  \A r \in Runs :
    /\ \A c \in Canvases(r) :
         /\ \A k \in 1..Len(c.pins) : ObsOf(r, c.pins[k].obs).coords # NoCoords
         /\ c.base # NoPlan =>
              [k \in 1..Len(c.pins) |-> c.pins[k].obs]
                = LET located == SelectSeq(cl[r].observations,
                        LAMBDA o : o.planId = c.base /\ o.coords # NoCoords)
                  IN [k \in 1..Len(located) |-> located[k].id]
    /\ pc[r] = "catch" =>
         \/ ~jspdf
         \/ ~Exportable([w |-> cl[r].plans[planIdx[r]].imageData.w,
                         h |-> cl[r].plans[planIdx[r]].imageData.h])

C8_Witness ==
  \E r \in Runs : \E i \in 1..Len(doc[r]) :
    /\ doc[r][i].image.base = 1
    /\ Len(doc[r][i].image.pins) = 1
    /\ \E o \in Range(cl[r].observations) : o.planId = 1 /\ o.coords = NoCoords
    /\ Complete(r)

\* C9: the colour of every pin is fixed by the priority of its observation:
\* Critical #dc2626, High #f97316, Medium and Low #2563eb, and nothing else.
C9_PinColour ==
  \A r \in Runs : \A c \in Canvases(r) : \A k \in 1..Len(c.pins) :
    LET p == ObsOf(r, c.pins[k].obs).priority
    IN /\ p \in Priority
       /\ p = "Critical" => c.pins[k].color = "#dc2626"
       /\ p = "High" => c.pins[k].color = "#f97316"
       /\ p \in {"Medium", "Low"} => c.pins[k].color = "#2563eb"
       /\ c.pins[k].color \in {"#dc2626", "#f97316", "#2563eb"}

C9_Witness ==
  \E r \in Runs : \E c \in Canvases(r) : \E d \in Canvases(r) :
    /\ Len(c.pins) = 1 /\ Len(d.pins) = 1
    /\ ObsOf(r, c.pins[1].obs).priority = "Low"
    /\ c.pins[1].color = "#2563eb"
    /\ ObsOf(r, d.pins[1].obs).priority = "High"
    /\ d.pins[1].color = "#f97316"

\* C10: a pin at (x, y) on a canvas of w x h pixels is centred at
\* px = x / 100 * w, py = y / 100 * h (px and py are kept in hundredths of a
\* pixel), inside the canvas, and equal coordinates give equal relative
\* positions on canvases of any two sizes.
C10_CoordinateMap ==
  \A r \in Runs : \A c \in Canvases(r) : \A k \in 1..Len(c.pins) :
    LET xy == ObsOf(r, c.pins[k].obs).coords
    IN /\ c.pins[k].px = xy[1] * c.w
       /\ c.pins[k].py = xy[2] * c.h
       /\ 0 <= c.pins[k].px /\ c.pins[k].px <= 100 * c.w
       /\ 0 <= c.pins[k].py /\ c.pins[k].py <= 100 * c.h
       /\ \A q \in Runs : \A e \in Canvases(q) : \A j \in 1..Len(e.pins) :
            ObsOf(q, e.pins[j].obs).coords = xy =>
              /\ c.pins[k].px * e.w = e.pins[j].px * c.w
              /\ c.pins[k].py * e.h = e.pins[j].py * c.h

C10_Witness ==
  \E r \in Runs : \E c \in Canvases(r) : \E e \in Canvases(r) :
    /\ c.w # e.w
    /\ Len(c.pins) = 1 /\ Len(e.pins) = 1
    /\ ObsOf(r, c.pins[1].obs).coords = <<37, 100>>
    /\ ObsOf(r, e.pins[1].obs).coords = <<37, 100>>
    /\ c.pins[1].px = 37 * c.w
    /\ e.pins[1].px = 37 * e.w

\* The block the detail loop has drawn last in run r.
LastBlock(r) == LastPage(doc[r]).blocks[Len(LastPage(doc[r]).blocks)]

\* ceil(n / 3): the least number of rows of three that hold n photos.
CeilThird(n) == CHOOSE k \in 0..n : 3 * k >= n /\ 3 * (k - 1) < n

\* C11: for a finding with n images the image-grid height the layout uses
\* (what the cursor moves from the top of the grid, less the gap of 10 after
\* it) is ceil(n / 3) * (50 + 5), the grid ends one row pitch below the top
\* of its last photo, and the height is 0 when n = 0.
C11_ImageGridHeight ==
  [][\A r \in Runs :
       (pc[r] = "detail" /\ obsIdx'[r] = obsIdx[r] + 1) =>
         LET n == Len(cl[r].observations[obsIdx[r]].images)
             page == LastPage(doc'[r])
             b == page.blocks[Len(page.blocks)]
             gridTop == b.top + rowHeight + 5
             grid == currentY'[r] - gridTop - (IF n > 0 THEN 10 ELSE 5)
         IN /\ grid = CeilThird(n) * (50 + 5)
            /\ n > 0 => b.cells[n].y + 50 + 5 = gridTop + grid
            /\ n = 0 => grid = 0]_vars

C11_Witness ==
  \E r \in Runs :
    /\ pc[r] \in {"detail", "save"}
    /\ LastPage(doc[r]).blocks # <<>>
    /\ Len(LastBlock(r).cells) = 4
    /\ currentY[r] = LastBlock(r).top + 45 + 2 * 55 + 10

\* Two photo cells of side 50 share no area.
CellsApart(c, d) ==
  \/ c.x + 50 <= d.x
  \/ d.x + 50 <= c.x
  \/ c.y + 50 <= d.y
  \/ d.y + 50 <= c.y

\* The number of cells of block b in grid row `row` (0-based).
CellsInRow(b, row) ==
  Cardinality({i \in 1..Len(b.cells) : b.cells[i].y = b.top + 45 + row * 55})

\* C12: image i (0-based) of a finding is placed in row floor(i / 3) and
\* column i mod 3 of the grid, so 7 images form rows of 3, 3 and 1; no two
\* cells of a grid overlap; and the block that follows on the same page starts
\* at or below the bottom edge of the last image row.
C12_ImageGrid ==
  \A r \in Runs : \A p \in 1..Len(doc[r]) :
    LET blocks == doc[r][p].blocks
    IN \A k \in 1..Len(blocks) :
         LET b == blocks[k]
             n == Len(b.cells)
         IN /\ \A i \in 0..(n - 1) :
                 /\ b.cells[i + 1].x = 20 + (i % 3) * 55
                 /\ b.cells[i + 1].y = b.top + 45 + (i \div 3) * 55
            /\ \A i \in 1..n : \A j \in 1..n :
                 i # j => CellsApart(b.cells[i], b.cells[j])
            /\ n = 7 => /\ CellsInRow(b, 0) = 3
                        /\ CellsInRow(b, 1) = 3
                        /\ CellsInRow(b, 2) = 1
            /\ (n > 0 /\ k < Len(blocks)) =>
                 \A i \in 1..n : blocks[k + 1].top >= b.cells[i].y + 50

C12_Witness ==
  \E r \in Runs :
    /\ pc[r] = "save"
    /\ \E p \in 1..Len(doc[r]) : \E k \in 1..Len(doc[r][p].blocks) :
         /\ Len(doc[r][p].blocks[k].cells) = 7
         /\ doc[r][p].blocks[k].cells[7].x = 20
         /\ doc[r][p].blocks[k].cells[7].y = doc[r][p].blocks[k].top + 45 + 110
    /\ \E p \in 1..Len(doc[r]) : \E k \in 1..(Len(doc[r][p].blocks) - 1) :
         /\ Len(doc[r][p].blocks[k].cells) = 4
         /\ doc[r][p].blocks[k + 1].top = doc[r][p].blocks[k].top + 45 + 110 + 10

\* The plan of run r's closure with the given id.
PlanOf(r, id) == CHOOSE p \in Range(cl[r].plans) : p.id = id

\* Compositing the plan gives an image: it decodes and the canvas exports.
Composites(plan) == plan.imageData.ok /\ Exportable(plan.imageData)

\* C13: a plan whose compositing fails contributes no page: the document of
\* a run never holds a "MAP REFERENCE" page of such a plan.
C13_FailedPlanNoPage ==
  \A r \in Runs : \A i \in 1..Len(doc[r]) :
    doc[r][i].kind = "map" => Composites(PlanOf(r, doc[r][i].plan))

\* Every phase of run r's document is done: cover, one map page with its
\* image for each plan with findings, one block for each observation.
EveryPhaseDone(r) ==
  /\ doc[r] # <<>>
  /\ doc[r][1].kind = "cover"
  /\ MapPlanIds(doc[r]) = PlansWithFindings(r)
  /\ \A i \in 1..Len(doc[r]) : doc[r][i].kind = "map" => doc[r][i].image # NoCanvas
  /\ Len(BlocksOf(doc[r])) = Len(cl[r].observations)

\* C14: an exception thrown in a run (outside the per-photo try) takes the
\* run to the catch block before doc.save; from there the run never saves
\* and never notifies success, notifies "Export failed" once, and ends by
\* resetting isExporting; doc.save is called only by a run whose every phase
\* is done.
C14_FailureAborts ==
  [][\A r \in Runs :
       /\ (pc[r] # "catch" /\ pc'[r] = "catch") => outcome[r] = "none"
       /\ pc[r] = "catch" =>
            \/ pc'[r] = "catch" /\ outcome'[r] = "none"
            \/ pc'[r] = "finally" /\ outcome'[r] = "failed" /\ showToast' = MsgFailed
       /\ (pc[r] = "finally" /\ outcome[r] = "failed") =>
            \/ pc'[r] = "finally" /\ outcome'[r] = "failed"
            \/ pc'[r] = "idle" /\ ~isExporting'
       /\ (outcome[r] # "failed" /\ outcome'[r] = "failed") => pc[r] = "catch"
       /\ (showToast # MsgFailed /\ showToast' = MsgFailed) =>
            \E q \in Runs : pc[q] = "catch" /\ pc'[q] = "finally"
       /\ (outcome[r] # "success" /\ outcome'[r] = "success") =>
            pc[r] = "save" /\ EveryPhaseDone(r)]_vars

C14_Witness ==
  \E r \in Runs :
    /\ pc[r] = "finally"
    /\ outcome[r] = "failed"
    /\ showToast = MsgFailed
    /\ jspdf
    /\ Len(doc[r]) = 3
    /\ LastPage(doc[r]).kind = "map"
    /\ LastPage(doc[r]).image = NoCanvas
    /\ doc[r][2].image # NoCanvas

\* C15: a photo that addImage rejects is absorbed at that photo: every other
\* photo of the finding is placed in its cell, the cursor moves as far as for
\* a finding whose n photos are all placed, the loop goes on to the next
\* finding, and the run ends with doc.save and the success outcome.
C15_PhotoFailureAbsorbed ==
  [][\A r \in Runs :
       /\ (pc[r] = "detail" /\ obsIdx'[r] = obsIdx[r] + 1) =>
            LET o == cl[r].observations[obsIdx[r]]
                n == Len(o.images)
                page == LastPage(doc'[r])
                b == page.blocks[Len(page.blocks)]
            IN /\ Len(b.cells) = n
               /\ \A i \in 1..n : b.cells[i].placed <=> o.images[i] = "ok"
               /\ currentY'[r] - b.top
                    = 40 + 5 + (IF n > 0 THEN CeilThird(n) * 55 + 10 ELSE 5)
               /\ pc'[r] = (IF obsIdx[r] < Len(cl[r].observations)
                              THEN "detail" ELSE "save")
       /\ pc[r] = "save" =>
            \/ pc'[r] = "save"
            \/ pc'[r] = "finally" /\ outcome'[r] = "success" /\ showToast' = MsgSuccess]_vars

C15_Witness ==
  \E r \in Runs :
    /\ pc[r] = "finally"
    /\ outcome[r] = "success"
    /\ \E k \in 1..(Len(BlocksOf(doc[r])) - 1) :
         /\ Len(BlocksOf(doc[r])[k].cells) = 7
         /\ ~BlocksOf(doc[r])[k].cells[2].placed
         /\ BlocksOf(doc[r])[k].cells[3].placed
         /\ BlocksOf(doc[r])[k].cells[7].placed
         /\ Len(BlocksOf(doc[r])[k + 1].cells) = 1
         /\ BlocksOf(doc[r])[k + 1].cells[1].placed

\* The ids of a sequence of observations or of blocks.
IdsOf(q) == [k \in 1..Len(q) |-> q[k].id]

BlockObs(d) == [k \in 1..Len(BlocksOf(d)) |-> BlocksOf(d)[k].obs]

\* C16: the blocks of the detail section follow the stored observations
\* array, one block for each observation once the loop has ended, whatever
\* the search box holds and whatever order the findings view lists them in.
C16_StoredOrder ==
  \A r \in Runs :
    /\ Len(BlockObs(doc[r])) <= Len(observations)
    /\ BlockObs(doc[r]) = SubSeq(IdsOf(observations), 1, Len(BlockObs(doc[r])))
    /\ Complete(r) => BlockObs(doc[r]) = IdsOf(observations)

C16_Witness ==
  \E r \in Runs :
    /\ pc[r] = "save"
    /\ searchQuery = "high"
    /\ Len(filteredObservations(observations, searchQuery)) = 1
    /\ Len(observations) = 3
    /\ BlockObs(doc[r]) = IdsOf(observations)
    /\ BlockObs(doc[r]) # IdsOf(filteredObservations(observations, ""))

\* The place of a page kind in the order of the phases.
PhaseRank(kind) ==
  CASE kind = "cover" -> 1 [] kind = "map" -> 2 [] kind = "detail" -> 3

\* The pages of a document follow the phases: one cover page first, then
\* the map pages, then the detail pages.
PagesInOrder(d) ==
  /\ d # <<>> => d[1].kind = "cover"
  /\ \A i \in 2..Len(d) : d[i].kind # "cover"
  /\ \A i \in 1..Len(d) : \A j \in i..Len(d) :
       PhaseRank(d[i].kind) <= PhaseRank(d[j].kind)

\* Document e is document d drawn further: pages are only added, and only
\* the last page of d can have got more content.
DrawnFurther(d, e) ==
  /\ Len(e) >= Len(d)
  /\ \A i \in 1..(Len(d) - 1) : e[i] = d[i]

\* C17: within one run the phases come in the order cover, map pages, detail
\* pages, finalize, and never go back: the pages of the document are the
\* cover, then map pages, then detail pages; a step that draws only adds to
\* the last page or appends pages; doc.save is called once, after the last
\* block, and nothing is drawn after it.
C17_PhaseOrder ==
  [][\A r \in Runs :
       /\ PagesInOrder(doc'[r])
       /\ (doc'[r] # doc[r] /\ pc'[r] # "idle") =>
            /\ DrawnFurther(doc[r], doc'[r])
            /\ outcome[r] = "none"
            /\ pc[r] \in {"cover", "maps", "resume", "detailHeader", "detail"}
       /\ (doc[r] # <<>> /\ doc'[r] # <<>>
             /\ LastPage(doc[r]).kind # "detail"
             /\ LastPage(doc'[r]).kind = "detail") => pc[r] = "detailHeader"
       /\ (outcome[r] # "success" /\ outcome'[r] = "success") =>
            /\ pc[r] = "save"
            /\ pc'[r] = "finally"
            /\ Len(BlocksOf(doc[r])) = Len(cl[r].observations)
       /\ outcome[r] = "success" => pc[r] = "finally"]_vars

C17_Witness ==
  \E r \in Runs :
    /\ pc[r] = "finally"
    /\ outcome[r] = "success"
    /\ [i \in 1..Len(doc[r]) |-> doc[r][i].kind]
         = <<"cover", "map", "map", "detail", "detail">>

\* A step of generateReport or of renderPlanWithPins.
RunActs ==
  \/ GenerateClicked
  \/ \E r \in Runs : RunStep(r) \/ ImgOnload(r) \/ ImgOnerror(r)

\* C18: no step of generateReport or renderPlanWithPins changes project,
\* plans (their imageData included) or observations, from the invocation to
\* the end of the run what the run reads is what was stored at the
\* invocation, and of the application state such a step changes only
\* isExporting and the toast.
C18_SourceUnchanged ==
  [][RunActs =>
       /\ project' = project
       /\ plans' = plans
       /\ observations' = observations
       /\ view' = view
       /\ searchQuery' = searchQuery
       /\ \A r \in Runs :
            /\ (~InFlight(r) /\ InFlight(r)') =>
                 cl'[r] = [project |-> project, plans |-> plans,
                           observations |-> observations]
            /\ (InFlight(r) /\ InFlight(r)') => cl'[r] = cl[r]]_vars

C18_Witness ==
  \E r \in Runs :
    /\ pc[r] = "finally"
    /\ outcome[r] = "success"
    /\ showToast = MsgSuccess
    /\ isExporting
    /\ Len(plans) = 2
    /\ Len(MapPlanIds(doc[r])) = 2
    /\ cl[r] = [project |-> project, plans |-> plans,
                observations |-> observations]
    /\ IdsOf(observations) # IdsOf(SortNewestFirst(observations))

\* Letters and digits among the characters of project names.
IsAlphanumeric(c) == c \in {"A", "4", "S", "i", "t", "e"}

\* A name with every character that is no letter or digit replaced by "_".
Normalized(name) ==
  [i \in 1..Len(name) |-> IF IsAlphanumeric(name[i]) THEN name[i] ELSE "_"]

\* C19: the name given to doc.save is the project name with every
\* non-alphanumeric character replaced by "_", followed by "_Report.pdf", so
\* the part before the suffix holds only letters, digits and "_".
C19_FileName ==
  \A r \in Runs :
    saved[r] # <<>> =>
      /\ saved[r] = Normalized(cl[r].project.name) \o Suffix
      /\ \A i \in 1..(Len(saved[r]) - Len(Suffix)) :
           IsAlphanumeric(saved[r][i]) \/ saved[r][i] = "_"

\* Something can still move run r: a step of its own code, or the load
\* event of the image it waits for.
CanMove(r) ==
  \/ ENABLED RunStep(r)
  \/ ENABLED ImgOnload(r)
  \/ ENABLED ImgOnerror(r)

\* C21: no run stays in flight forever: whenever the event loop is free,
\* every run in flight still has a step to come that takes it towards one of
\* its two outcomes and the reset of isExporting, also after the platform
\* has reported the image load of a plan as failed.
C21_RunCanFinish ==
  \A r \in Runs : (InFlight(r) /\ active = 0) => CanMove(r)

\* The blocks drawn so far by all runs.
AllBlocks == UNION {Range(BlocksOf(doc[r])) : r \in Runs}

\* C22: the block height computed for the fit check includes the height of
\* the wrapped description, L lines of the line height, on top of the photo
\* grid, and of two findings with the same number of photos the one whose
\* note wraps to more lines gets the strictly larger height.
C22_HeightCountsNoteLines ==
  \A b \in AllBlocks :
    /\ b.needed * LineHeightDen
         >= b.lines * LineHeightNum
            + CeilThird(Len(b.cells)) * 55 * LineHeightDen
    /\ \A c \in AllBlocks :
         (Len(b.cells) = Len(c.cells) /\ b.lines < c.lines)
           => b.needed < c.needed

\* C27: isExporting is true in every state in which a run is in flight and
\* false only when none is: the end of one run never clears the gate while
\* another run is still in flight.
C27_GateCoversRuns ==
  isExporting <=> (\E r \in Runs : InFlight(r))

\* C28: the cursor moves past a finding by the height its fit check
\* reserved, rowHeight + image-grid height + 10, so the cursor never ends a
\* block below pageHeight - 20.
C28_AdvanceIsReserved ==
  [][\A r \in Runs :
       (pc[r] = "detail" /\ obsIdx'[r] = obsIdx[r] + 1) =>
         LET n == Len(cl[r].observations[obsIdx[r]].images)
             page == LastPage(doc'[r])
             b == page.blocks[Len(page.blocks)]
         IN /\ currentY'[r] - b.top = 40 + CeilThird(n) * 55 + 10
            /\ currentY'[r] <= pageHeight - 20]_vars

\* C26: nothing is drawn on a canvas while its image is loading or after the
\* load has failed; on a drawn canvas the base image comes first, the
\* encoding last, and in between each pin of the plan, in order, as glow
\* disc, solid disc, white ring, numeric label.
C26_DrawOrder ==
  \A r \in Runs :
    /\ img[r] # "none" => canvas[r].ops = <<>>
    /\ \A c \in Canvases(r) :
         c.ops # <<>> =>
           /\ Len(c.ops) = 4 * Len(c.pins) + 2
           /\ c.ops[1].op = "drawImage"
           /\ c.ops[Len(c.ops)].op = "toDataURL"
           /\ \A k \in 1..Len(c.pins) :
                /\ c.ops[4 * k - 2] = [op |-> "glow", obs |-> c.pins[k].obs]
                /\ c.ops[4 * k - 1] = [op |-> "disc", obs |-> c.pins[k].obs]
                /\ c.ops[4 * k] = [op |-> "ring", obs |-> c.pins[k].obs]
                /\ c.ops[4 * k + 1] = [op |-> "label", obs |-> c.pins[k].obs]

C26_Witness ==
  \E r \in Runs :
    /\ pc[r] = "resume"
    /\ Len(canvas[r].pins) = 2
    /\ Len(canvas[r].ops) = 10
    /\ canvas[r].ops[5].op = "label"
    /\ canvas[r].ops[6].op = "glow"
    /\ canvas[r].ops[6].obs # canvas[r].ops[5].obs


\* C23: after any sequence of startNewObservation, pin selection on a plan,
\* Change Plan, pin repositioning, save and delete operations, every stored
\* observation and the observation being edited has planId and coords
\* either both null or both set.
PinConsistent(o) == (o.planId = NoPlan) <=> (o.coords = NoCoords)

C23_PinBothOrNeither ==
  /\ \A k \in 1..Len(observations) : PinConsistent(observations[k])
  /\ PinConsistent(editingObs)

\* C25: saving an observation whose id is not stored puts it at position 1
\* and keeps the stored observations in their order, each one position
\* further; saving one whose id is stored replaces it where it is, and
\* changes neither the position of any finding nor the length.
C25_SaveKeepsOrder ==
  [][(editingObs # NoObs /\ editingObs' = NoObs) =>
       IF Stored(editingObs.id)
       THEN /\ IdsOf(observations') = IdsOf(observations)
            /\ \A k \in 1..Len(observations) :
                 observations'[k] = IF observations[k].id = editingObs.id
                                    THEN editingObs ELSE observations[k]
       ELSE /\ Len(observations') = Len(observations) + 1
            /\ observations'[1] = editingObs
            /\ \A k \in 1..Len(observations) :
                 observations'[k + 1] = observations[k]]_vars

\* Two findings were created and saved, the second in front of the first,
\* and the first was then given a pin and saved again.
C25_Witness ==
  /\ IdsOf(observations) = <<generateId(2), generateId(1)>>
  /\ observations[1].planId = NoPlan
  /\ observations[2].planId # NoPlan
  /\ editingObs = NoObs
  /\ showToast = MsgSaved

\* C29: after any sequence of plan upload, plan rename, plan delete and
\* observation operations, every stored observation with a planId refers to
\* a plan that is in plans.
C29_PinsReferToPlans ==
  \A k \in 1..Len(observations) :
    observations[k].planId # NoPlan => HasPlan(observations[k].planId)

\* C30: a plan upload that completes adds exactly one plan to plans and
\* removes none, also when another upload was started or has completed
\* while its file was being read.
C30_UploadAddsOne ==
  [][(Len(uploads') < Len(uploads) /\ idCount' > idCount) =>
       /\ Len(plans') = Len(plans) + 1
       /\ \A k \in 1..Len(plans) :
            \E j \in 1..Len(plans') : plans'[j].id = plans[k].id]_vars

\* C24: after any sequence of photo capture (one capture event may deliver
\* several files, and a file read may complete later), photo deletion,
\* annotation and save operations, every observation holds between 0 and 5
\* photos.
C24_PhotoCount ==
  /\ Len(editingObs.images) <= photoSlots
  /\ \A k \in 1..Len(observations) :
       Len(observations[k].images) <= photoSlots

=============================================================================
